---- MODULE Spec2Model ----
(***************************************************************************)
(* actsnclass/classifiers.py: random_forest (the trainer) and              *)
(* mlflow_tracking_And_Registry (the tracking recorder).                   *)
(*                                                                         *)
(* Each process of ProcSet is one Python interpreter running calls of      *)
(* random_forest one after the other.  The processes share the working     *)
(* directory (the file train_sample.csv), the wall clock and the tracking  *)
(* server (runs and model registry); the autologging switch and the        *)
(* selected experiment are per-process state of the mlflow module.         *)
(*                                                                         *)
(* Spec      one interpreter, calls one after the other, collaborator      *)
(*           failures and invalid inputs                                   *)
(* SpecClock one interpreter, calls that succeed, midnight may pass        *)
(* SpecConc  two interpreters in one working directory, calls that         *)
(*           succeed, a bounded number of preemptions                      *)
(***************************************************************************)
EXTENDS Integers, Sequences, FiniteSets, TLC

VARIABLES
    pc,          \* pc[p]: the statement process p executes next
    args,        \* args[p]: the arguments of the running random_forest call
    locals,      \* locals[p]: local variables of the running call
    trace,       \* trace[p]: the collaborator calls the running call has made
    ret,         \* ret[p]: how the last call of p ended, what it returned and did
    callOf,      \* callOf[p]: number of the running (or last) call of p
    overlap,     \* overlap[p]: another recorder invocation ran during p's
    autologOn,   \* autologOn[p]: mlflow.sklearn autologging is on in process p
    experiment,  \* experiment[p]: the experiment selected in process p
    runs,        \* the tracking server's runs, run id = index
    registry,    \* the model registry's versions, in registration order
    file,        \* the content of ./train_sample.csv
    clock,       \* the calendar date datetime.now() reports
    ticks,       \* midnights passed
    calls,       \* random_forest calls started so far
    failures,    \* collaborator failures injected so far
    last,        \* the process that took the last step, 0 once its call is over
    switches     \* preemptions so far: steps taken while another call was under way

vars == <<pc, args, locals, trace, ret, callOf, overlap, autologOn, experiment,
          runs, registry, file, clock, ticks, calls, failures, last, switches>>

(***************************************************************************)
(* Bounds of the model.                                                    *)
(***************************************************************************)
MaxCalls == 2        \* random_forest calls, all processes together
MaxFailures == 2     \* collaborator calls that fail
MaxSwitches == 2     \* preemptions of a running call by the other process
MaxTicks == 1        \* midnights during the exploration
NumParams == 2       \* entries of clf.get_params()
FeatureCols == 4     \* columns of train_features

ProcSet == {1, 2}
\* The frames a caller passes as train_features: `rows` rows of FeatureCols
\* cells, every cell printing with `chars` characters (7; 0.1234567890)
Frames == {[rows |-> 2, chars |-> 1], [rows |-> 250, chars |-> 12]}
RowChoices == {f.rows : f \in Frames}
TestColChoices == {FeatureCols, FeatureCols + 1}
StartDate == [day |-> 31, month |-> 12, year |-> 2026]

\* bytes the text layer of the file object collects before it hands them on
\* to be written: a write() carries whole lines, at most this many bytes
BufferSize == 8192

\* The file on disk: `segs` lists its bytes from the start as stretches
\* [who, n] of n bytes written by invocation `who` (0: a hole of zero bytes
\* left by a write beyond the end).  Every writer starts at offset 0 of the
\* file with byte 0 of its text, so the byte at an offset of the file is the
\* byte at that offset of its writer's text.
\* no train_sample.csv in the working directory
NoFile == [exists |-> FALSE, segs |-> <<>>]
\* train_sample.csv opened for writing and nothing written yet
EmptyFile == [exists |-> TRUE, segs |-> <<>>]
NoFeatures == [rows |-> 0, cols |-> 0, chars |-> 0]
NoArgs == [train_features |-> NoFeatures, testCols |-> 0, mlflow |-> FALSE]
NoLocals == [run_name |-> <<>>, current_date |-> <<>>, model_name |-> <<>>,
             run |-> 0, i |-> 0, version |-> 0, predictions |-> FALSE,
             prob |-> FALSE, stage |-> "none", autologBefore |-> FALSE,
             written |-> 0]
NoRet == [status |-> "none", predictions |-> FALSE, prob |-> FALSE, stage |-> "none",
          call |-> 0, mlflow |-> FALSE, trace |-> <<>>, autologBefore |-> FALSE]

(***************************************************************************)
(* String formatting.  A string is the sequence of its pieces; numbers are *)
(* formatted digit by digit.                                               *)
(***************************************************************************)
Digit(d) ==
    CASE d = 0 -> "0" [] d = 1 -> "1" [] d = 2 -> "2" [] d = 3 -> "3"
      [] d = 4 -> "4" [] d = 5 -> "5" [] d = 6 -> "6" [] d = 7 -> "7"
      [] d = 8 -> "8" [] d = 9 -> "9"

RECURSIVE FormatInt(_)
\* str(n) of a natural number, as in an f-string
FormatInt(n) == IF n < 10 THEN <<Digit(n)>> ELSE FormatInt(n \div 10) \o <<Digit(n % 10)>>

RECURSIVE ZeroPad(_, _)
\* the digit string s zero padded on the left to width w (%d, %m, %Y)
ZeroPad(s, w) == IF Len(s) >= w THEN s ELSE ZeroPad(<<"0">> \o s, w)

\* datetime.strftime("%d-%m-%Y")
Strftime(date) ==
    ZeroPad(FormatInt(date.day), 2) \o <<"-">> \o ZeroPad(FormatInt(date.month), 2)
        \o <<"-">> \o ZeroPad(FormatInt(date.year), 4)

RunNameShape1(features) == <<"Train_size_">> \o FormatInt(features.cols)

\* train_size = train_features.shape[0]; run_name = f"Train_size_{train_size}"
RunName(features) == <<"Train_size_">> \o FormatInt(features.rows)

\* model_name = f"Random_Forest_Experiment_{current_date}"
ModelName(current_date) == <<"Random_Forest_Experiment_">> \o current_date

\* model_uri = f"runs:/{run.info.run_id}/{model_name}"
ModelUri(run_id, model_name) == <<"runs:/">> \o FormatInt(run_id) \o <<"/">> \o model_name

DescriptionNow(current_date) ==
    <<"Random Forest model registered on ">> \o Strftime(clock)

\* description="Random Forest model registered on " + current_date
Description(current_date) == <<"Random Forest model registered on ">> \o current_date

ToCsvHead(features) ==
    [rows |-> 1, cols |-> features.cols, chars |-> features.chars, header |-> TRUE]

\* pd.DataFrame(train_features).to_csv(train_sample_file, index=False): the
\* text is a header line of the column labels 0 .. cols-1 and one line per
\* row, cells separated by commas, no index column
ToCsv(features) ==
    [rows |-> features.rows, cols |-> features.cols, chars |-> features.chars,
     header |-> TRUE]

RECURSIVE LabelBytes(_)
LabelBytes(cols) == IF cols = 0 THEN 0 ELSE LabelBytes(cols - 1) + Len(FormatInt(cols - 1)) + 1

\* bytes of the header line, of a row's line and of the whole text
HeaderBytes(text) == IF text.header THEN LabelBytes(text.cols) ELSE 0
LineBytes(text) == text.cols * (text.chars + 1)
TextBytes(text) == HeaderBytes(text) + text.rows * LineBytes(text)

(***************************************************************************)
(* Writing to train_sample.csv.  Every open file has its own offset; a     *)
(* write() puts its bytes at the writer's offset, over whatever is there,  *)
(* and leaves the rest of the file alone.  Only open() truncates.          *)
(***************************************************************************)
Max(S) == CHOOSE x \in S : \A y \in S : y <= x
Min(S) == CHOOSE x \in S : \A y \in S : x <= y

\* The bytes of the next write() of a writer that has written `at` bytes of
\* `text`: the lines still to come, as many whole lines as BufferSize holds
Batch(text, at) ==
    LET head == IF at = 0 THEN HeaderBytes(text) ELSE 0
        done == IF at = 0 THEN 0 ELSE (at - HeaderBytes(text)) \div LineBytes(text)
        fit == IF LineBytes(text) = 0 THEN 0 ELSE (BufferSize - head) \div LineBytes(text)
    IN  head + Min({text.rows - done, fit}) * LineBytes(text)

RECURSIVE BytesIn(_)
BytesIn(segs) == IF segs = <<>> THEN 0 ELSE segs[1].n + BytesIn(Tail(segs))

\* the invocation that wrote byte k (0 beyond the end or in a hole)
RECURSIVE ByteAt(_, _)
ByteAt(segs, k) ==
    IF segs = <<>> THEN 0
    ELSE IF k <= segs[1].n THEN segs[1].who
    ELSE ByteAt(Tail(segs), k - segs[1].n)

\* the offsets at which a stretch ends, counted from `at`
RECURSIVE Ends(_, _)
Ends(segs, at) ==
    IF segs = <<>> THEN {at} ELSE {at} \cup Ends(Tail(segs), at + segs[1].n)

\* the stretches of the file after bytes from+1 .. from+count were written by
\* `who`, listed from byte a+1 on; `cuts` are the stretch ends still to come
RECURSIVE Rebuild(_, _, _, _, _, _)
Rebuild(segs, from, count, who, cuts, a) ==
    IF cuts = {} THEN <<>>
    ELSE LET b == Min(cuts)
             w == IF from < a + 1 /\ a + 1 <= from + count THEN who ELSE ByteAt(segs, a + 1)
             rest == Rebuild(segs, from, count, who, cuts \ {b}, b)
         IN  IF rest # <<>> /\ rest[1].who = w
             THEN <<[who |-> w, n |-> rest[1].n + (b - a)]>> \o Tail(rest)
             ELSE <<[who |-> w, n |-> b - a]>> \o rest

\* write(): `count` bytes of invocation `who` at offset `from` of the file
WriteBytes(f, from, count, who) ==
    LET end == Max({BytesIn(f.segs), from + count})
        cuts == ((Ends(f.segs, 0) \cup {from, from + count}) \ {0}) \cap (1..end)
    IN  IF count = 0 THEN f
        ELSE [exists |-> TRUE, segs |-> Rebuild(f.segs, from, count, who, cuts, 0)]

(***************************************************************************)
(* The calendar behind datetime.now().                                     *)
(***************************************************************************)
IsLeap(y) == (y % 4 = 0 /\ y % 100 # 0) \/ y % 400 = 0

DaysIn(m, y) ==
    IF m = 2 THEN (IF IsLeap(y) THEN 29 ELSE 28)
    ELSE IF m \in {4, 6, 9, 11} THEN 30 ELSE 31

NextDay(d) ==
    IF d.day < DaysIn(d.month, d.year) THEN [d EXCEPT !.day = @ + 1]
    ELSE IF d.month < 12 THEN [d EXCEPT !.day = 1, !.month = @ + 1]
    ELSE [day |-> 1, month |-> 1, year |-> d.year + 1]

(***************************************************************************)
(* The tracking server and the model registry, as the code uses them.      *)
(***************************************************************************)
NewRun(name, p, kind) ==
    [name |-> name, proc |-> p, call |-> callOf[p], kind |-> kind,
     status |-> "RUNNING", experiment |-> experiment[p], params |-> 0,
     sample |-> NoFile, models |-> {}, features |-> args[p].train_features,
     overlapped |-> FALSE, active |-> TRUE, endCalls |-> 0, endFailed |-> FALSE]

EndRunLeak(rs, id, status, ok) ==
    IF status = "FAILED"
    THEN [rs EXCEPT ![id].endCalls = @ + 1, ![id].endFailed = ~ok]
    ELSE [rs EXCEPT ![id].active = FALSE, ![id].status = IF ok THEN status ELSE @,
                    ![id].endCalls = @ + 1, ![id].endFailed = ~ok]

\* mlflow.end_run(status), called by the run's __exit__ when the with block is
\* left: the run is taken off the interpreter's stack of active runs, then
\* the server is told its final status; when that request fails (~ok) the
\* server keeps the run as RUNNING
EndRun(rs, id, status, ok) ==
    [rs EXCEPT ![id].active = FALSE, ![id].status = IF ok THEN status ELSE @,
               ![id].endCalls = @ + 1, ![id].endFailed = ~ok]

VersionsOf(reg, name) == {i \in DOMAIN reg : reg[i].name = name}

RegisterModelReplace(reg, uri, name, call) ==
    IF VersionsOf(reg, name) = {}
    THEN Append(reg, [name |-> name, source |-> uri, version |-> 1,
                      description |-> <<>>, call |-> call, describedBy |-> 0])
    ELSE [i \in DOMAIN reg |->
            IF reg[i].name = name THEN [reg[i] EXCEPT !.source = uri, !.call = call]
            ELSE reg[i]]

\* mlflow.register_model(model_uri, model_name): a new version under the name
RegisterModel(reg, uri, name, call) ==
    Append(reg, [name |-> name, source |-> uri,
                 version |-> Cardinality(VersionsOf(reg, name)) + 1,
                 description |-> <<>>, call |-> call, describedBy |-> 0])

\* client.update_model_version(name=, version=, description=)
UpdateModelVersion(reg, name, version, description, call) ==
    [i \in DOMAIN reg |->
        IF reg[i].name = name /\ reg[i].version = version
        THEN [reg[i] EXCEPT !.description = description, !.describedBy = call]
        ELSE reg[i]]

\* The run mlflow's patched fit opens and closes around the original fit once
\* autologging is on: parameters before the fit, the model after it.
AutologRun(p, fitted) ==
    [NewRun(<<"autolog">>, p, "autolog") EXCEPT
        !.status = IF fitted THEN "FINISHED" ELSE "FAILED",
        !.params = NumParams,
        !.active = FALSE,
        !.endCalls = 1,
        !.models = IF fitted THEN {<<"model">>} ELSE {}]

(***************************************************************************)
(* Control flow of one call.                                               *)
(***************************************************************************)
RecorderOrderEarlyRegister ==
    <<"set_experiment", "autolog", "start_run", "log_param", "to_csv",
      "to_csv_write", "log_artifact", "register_model", "log_model", "update_model_version", "exit">>

\* the statements of mlflow_tracking_And_Registry, in program order
RecorderOrder ==
    <<"set_experiment", "autolog", "start_run", "log_param", "to_csv",
      "to_csv_write", "log_artifact", "log_model", "register_model", "update_model_version", "exit">>

NextPc(step) ==
    LET i == CHOOSE k \in DOMAIN RecorderOrder : RecorderOrder[k] = step
    IN  RecorderOrder[i + 1]

InRun == {"log_param", "to_csv", "to_csv_write", "to_csv_close", "log_artifact", "log_model", "register_model",
          "update_model_version", "exit", "exit_raise"}
InRecorder == InRun \cup {"set_experiment", "autolog", "start_run"}

Goto(p, where) == pc' = [pc EXCEPT ![p] = where]
Did(p, steps) == trace' = [trace EXCEPT ![p] = @ \o steps]

\* a collaborator call either succeeds or raises
Outcome(ok) ==
    /\ ~ok => failures < MaxFailures
    /\ failures' = IF ok THEN failures ELSE failures + 1

\* the call ends: the exception reaches the caller of random_forest
Raise(p, stage, steps) ==
    /\ ret' = [ret EXCEPT ![p] =
                  [status |-> "raised", predictions |-> FALSE, prob |-> FALSE,
                   stage |-> stage, call |-> callOf[p], mlflow |-> args[p].mlflow,
                   trace |-> trace[p] \o steps, autologBefore |-> locals[p].autologBefore]]
    /\ Goto(p, "idle")
    /\ trace' = [trace EXCEPT ![p] = <<>>]
    /\ args' = [args EXCEPT ![p] = NoArgs]
    /\ locals' = [locals EXCEPT ![p] = NoLocals]

Init ==
    /\ pc = [p \in ProcSet |-> "idle"]
    /\ args = [p \in ProcSet |-> NoArgs]
    /\ locals = [p \in ProcSet |-> NoLocals]
    /\ trace = [p \in ProcSet |-> <<>>]
    /\ ret = [p \in ProcSet |-> NoRet]
    /\ callOf = [p \in ProcSet |-> 0]
    /\ overlap = [p \in ProcSet |-> FALSE]
    /\ autologOn = [p \in ProcSet |-> FALSE]
    /\ experiment = [p \in ProcSet |-> "Default"]
    /\ runs = <<>>
    /\ registry = <<>>
    /\ file = NoFile
    /\ clock = StartDate
    /\ ticks = 0
    /\ calls = 0
    /\ failures = 0
    /\ last = 0
    /\ switches = 0

\* A caller invokes random_forest(train_features, train_labels, test_features,
\* mlflow=), which runs up to the end of the fit:
\* clf = RandomForestClassifier(...); clf.fit(train_features, train_labels)
\* fit checks that the labels have as many rows as the features.
Fit(p) ==
    /\ pc[p] = "idle"
    /\ calls < MaxCalls
    /\ calls' = calls + 1
    /\ callOf' = [callOf EXCEPT ![p] = calls + 1]
    /\ overlap' = [overlap EXCEPT ![p] = FALSE]
    /\ \E frame \in Frames, labelRows \in RowChoices,
          testCols \in TestColChoices, flag \in BOOLEAN :
        LET train_features == [rows |-> frame.rows, cols |-> FeatureCols,
                               chars |-> frame.chars]
            rows == frame.rows
            fitted == rows = labelRows
        IN  /\ runs' = IF autologOn[p]
                       THEN Append(runs, [AutologRun(p, fitted) EXCEPT
                                            !.call = calls + 1, !.features = train_features])
                       ELSE runs
            /\ IF fitted
               THEN /\ args' = [args EXCEPT ![p] = [train_features |-> train_features,
                                                   testCols |-> testCols, mlflow |-> flag]]
                    /\ Goto(p, "predict")
                    /\ trace' = [trace EXCEPT ![p] = <<"fit">>]
                    /\ locals' = [locals EXCEPT ![p] =
                                     [NoLocals EXCEPT !.autologBefore = autologOn[p]]]
                    /\ ret' = [ret EXCEPT ![p] = NoRet]
               ELSE /\ ret' = [ret EXCEPT ![p] =
                                  [status |-> "raised", predictions |-> FALSE, prob |-> FALSE,
                                   stage |-> "fit", call |-> calls + 1, mlflow |-> flag,
                                   trace |-> <<"fit", "raise">>,
                                   autologBefore |-> autologOn[p]]]
                    /\ UNCHANGED <<pc, args, locals, trace>>
    /\ UNCHANGED <<autologOn, experiment, registry, file, clock, ticks, failures>>

\* the function hands its result to the caller: return predictions, prob
Return(p, predictions, prob, tr) ==
    /\ ret' = [ret EXCEPT ![p] =
                  [status |-> "returned", predictions |-> predictions, prob |-> prob,
                   stage |-> "none", call |-> callOf[p], mlflow |-> args[p].mlflow,
                   trace |-> tr, autologBefore |-> locals[p].autologBefore]]
    /\ Goto(p, "idle")
    /\ args' = [args EXCEPT ![p] = NoArgs]
    /\ locals' = [locals EXCEPT ![p] = NoLocals]
    /\ trace' = [trace EXCEPT ![p] = <<>>]

\* predictions = clf.predict(test_features); prob = clf.predict_proba(test_features)
\* if(mlflow): mlflow_tracking_And_Registry(clf, train_features)
\* return predictions, prob
Predict(p) ==
    /\ pc[p] = "predict"
    /\ IF args[p].testCols = args[p].train_features.cols
       THEN IF args[p].mlflow
            THEN /\ locals' = [locals EXCEPT ![p].predictions = TRUE, ![p].prob = TRUE]
                 /\ args' = [args EXCEPT ![p].testCols = 0]
                 /\ Did(p, <<"predict", "predict_proba">>)
                 /\ Goto(p, "set_experiment")
                 /\ UNCHANGED ret
            ELSE Return(p, TRUE, TRUE, trace[p] \o <<"predict", "predict_proba">>)
       ELSE Raise(p, "predict", <<"predict", "raise">>)
    /\ UNCHANGED <<callOf, overlap, autologOn, experiment, runs, registry, file, clock,
                   ticks, calls, failures>>

\* midnight passes
Tick ==
    /\ ticks < MaxTicks
    /\ ticks' = ticks + 1
    /\ clock' = NextDay(clock)
    /\ UNCHANGED <<pc, args, locals, trace, ret, callOf, overlap, autologOn, experiment,
                   runs, registry, file, calls, failures, last, switches>>

(***************************************************************************)
(* mlflow_tracking_And_Registry(clf, train_features)                       *)
(***************************************************************************)
Started == InRecorder \ {"set_experiment"}

RaiseInRunSwallowed(p, step) ==
    /\ Goto(p, "exit")
    /\ Did(p, <<"raise">>)
    /\ locals' = [locals EXCEPT ![p].stage = step]

\* an exception inside the with block: the block is left through __exit__
RaiseInRun(p, step) ==
    /\ Goto(p, "exit_raise")
    /\ Did(p, <<"raise">>)
    /\ locals' = [locals EXCEPT ![p].stage = step]

\* mlflow.set_experiment("Random_Forest_Experiment")
set_experiment(p) ==
    /\ pc[p] = "set_experiment"
    /\ \E ok \in BOOLEAN :
        /\ Outcome(ok)
        /\ IF ok
           THEN /\ experiment' = [experiment EXCEPT ![p] = "Random_Forest_Experiment"]
                /\ LET others == {q \in ProcSet \ {p} : pc[q] \in Started}
                   IN  overlap' = [q \in ProcSet |->
                                     IF q = p THEN others # {}
                                     ELSE IF q \in others THEN TRUE ELSE overlap[q]]
                /\ Goto(p, NextPc("set_experiment"))
                /\ Did(p, <<"set_experiment">>)
                /\ UNCHANGED <<args, locals, ret>>
           ELSE /\ Raise(p, "set_experiment", <<"raise">>)
                /\ UNCHANGED <<experiment, overlap>>
    /\ UNCHANGED <<callOf, autologOn, runs, registry, file, clock, ticks, calls>>

\* mlflow.sklearn.autolog(): best effort, it reports its own setup errors as
\* warnings; once on, it stays on for the rest of the process
autolog(p) ==
    /\ pc[p] = "autolog"
    /\ \E enabled \in BOOLEAN : autologOn' = [autologOn EXCEPT ![p] = @ \/ enabled]
    /\ Goto(p, NextPc("autolog"))
    /\ Did(p, <<"autolog">>)
    /\ UNCHANGED <<args, locals, ret, callOf, overlap, experiment, runs, registry, file,
                   clock, ticks, calls, failures>>

\* train_size = train_features.shape[0]; run_name = f"Train_size_{train_size}"
\* current_date = datetime.now().strftime("%d-%m-%Y"); model_name = ...
\* with mlflow.start_run(run_name=run_name) as run:
start_run(p) ==
    /\ pc[p] = "start_run"
    /\ \E ok \in BOOLEAN :
        /\ Outcome(ok)
        /\ LET run_name == RunName(args[p].train_features)
               current_date == Strftime(clock)
               model_name == ModelName(current_date)
           IN  IF ok
               THEN /\ runs' = Append(runs, NewRun(run_name, p, "recorder"))
                    /\ locals' = [locals EXCEPT ![p].run_name = run_name,
                                                ![p].current_date = current_date,
                                                ![p].model_name = model_name,
                                                ![p].run = Len(runs) + 1]
                    /\ Goto(p, NextPc("start_run"))
                    /\ Did(p, <<"start_run">>)
                    /\ UNCHANGED <<args, ret>>
               ELSE /\ Raise(p, "start_run", <<"raise">>)
                    /\ UNCHANGED runs
    /\ UNCHANGED <<callOf, overlap, autologOn, experiment, registry, file, clock, ticks, calls>>

\* for param_name, param_value in params.items(): mlflow.log_param(...)
log_param(p) ==
    /\ pc[p] = "log_param"
    /\ \E ok \in BOOLEAN :
        /\ Outcome(ok)
        /\ IF ok
           THEN /\ runs' = [runs EXCEPT ![locals[p].run].params = @ + 1]
                /\ locals' = [locals EXCEPT ![p].i = @ + 1]
                /\ Goto(p, IF locals[p].i + 1 < NumParams THEN "log_param"
                           ELSE NextPc("log_param"))
                /\ Did(p, <<"log_param">>)
           ELSE /\ RaiseInRun(p, "log_param")
                /\ UNCHANGED runs
    /\ UNCHANGED <<args, ret, callOf, overlap, autologOn, experiment, registry, file, clock,
                   ticks, calls>>

\* train_sample.to_csv("train_sample.csv", index=False), open(): the file is
\* emptied and the writer's offset is its start; an open that fails leaves
\* the file as it was
to_csv(p) ==
    /\ pc[p] = "to_csv"
    /\ \E ok \in BOOLEAN :
        /\ Outcome(ok)
        /\ IF ok
           THEN /\ file' = EmptyFile
                /\ Goto(p, NextPc("to_csv"))
                /\ locals' = [locals EXCEPT ![p].written = 0]
                /\ UNCHANGED trace
           ELSE /\ RaiseInRun(p, "to_csv")
                /\ UNCHANGED file
    /\ UNCHANGED <<args, ret, callOf, overlap, autologOn, experiment, runs, registry, clock,
                   ticks, calls>>

\* to_csv, one write(): the next whole lines of the text, as many as the
\* buffer holds, go to the file at the writer's offset; with the last of
\* them the file is closed, which ends to_csv.  When the write fails, to_csv
\* raises and closes the file on its way out.
to_csv_write(p) ==
    /\ pc[p] = "to_csv_write"
    /\ \E ok \in BOOLEAN :
        /\ Outcome(ok)
        /\ IF ok
           THEN LET text == ToCsv(args[p].train_features)
                    at == locals[p].written
                    count == Batch(text, at)
                IN  /\ file' = WriteBytes(file, at, count, callOf[p])
                    /\ IF at + count < TextBytes(text)
                       THEN /\ locals' = [locals EXCEPT ![p].written = at + count]
                            /\ UNCHANGED <<pc, trace>>
                       ELSE /\ Goto(p, NextPc("to_csv_write"))
                            /\ Did(p, <<"to_csv">>)
                            /\ locals' = [locals EXCEPT ![p].written = 0]
           ELSE /\ Goto(p, "to_csv_close")
                /\ UNCHANGED <<file, locals, trace>>
    /\ UNCHANGED <<args, ret, callOf, overlap, autologOn, experiment, runs, registry, clock,
                   ticks, calls>>

\* to_csv raising after a failed write(): the file object is closed.  Bytes
\* of the failed write that are still in its buffer are written once more
\* (again); bytes that went past the buffer, or whose second write fails
\* too, are lost.  Lines after the failed write are never written.
to_csv_close(p) ==
    /\ pc[p] = "to_csv_close"
    /\ \E again \in BOOLEAN :
        LET text == ToCsv(args[p].train_features)
            at == locals[p].written
        IN  file' = IF again THEN WriteBytes(file, at, Batch(text, at), callOf[p]) ELSE file
    /\ RaiseInRun(p, "to_csv")
    /\ UNCHANGED <<args, ret, callOf, overlap, autologOn, experiment, runs, registry, clock,
                   ticks, calls, failures>>

\* mlflow.log_artifact("train_sample.csv"): the file, far smaller than the
\* copy's block, is read with one read()
log_artifact(p) ==
    /\ pc[p] = "log_artifact"
    /\ \E ok \in BOOLEAN :
        /\ Outcome(ok)
        /\ IF ok
           THEN /\ runs' = [runs EXCEPT ![locals[p].run].sample = file,
                                        ![locals[p].run].overlapped = overlap[p]]
                /\ Goto(p, NextPc("log_artifact"))
                /\ Did(p, <<"log_artifact">>)
                /\ UNCHANGED locals
           ELSE /\ RaiseInRun(p, "log_artifact")
                /\ UNCHANGED runs
    /\ UNCHANGED <<args, ret, callOf, overlap, autologOn, experiment, registry, file, clock,
                   ticks, calls>>

\* mlflow.sklearn.log_model(clf, model_name)
log_model(p) ==
    /\ pc[p] = "log_model"
    /\ \E ok \in BOOLEAN :
        /\ Outcome(ok)
        /\ IF ok
           THEN /\ runs' = [runs EXCEPT ![locals[p].run].models = @ \cup {locals[p].model_name}]
                /\ Goto(p, NextPc("log_model"))
                /\ Did(p, <<"log_model">>)
                /\ UNCHANGED locals
           ELSE /\ RaiseInRun(p, "log_model")
                /\ UNCHANGED runs
    /\ UNCHANGED <<args, ret, callOf, overlap, autologOn, experiment, registry, file, clock,
                   ticks, calls>>

\* registered_model = mlflow.register_model(model_uri, model_name)
register_model(p) ==
    /\ pc[p] = "register_model"
    /\ \E ok \in BOOLEAN :
        /\ Outcome(ok)
        /\ IF ok
           THEN /\ registry' = RegisterModel(registry,
                                   ModelUri(locals[p].run, locals[p].model_name),
                                   locals[p].model_name, callOf[p])
                /\ locals' = [locals EXCEPT ![p].version = registry'[Len(registry')].version]
                /\ Goto(p, NextPc("register_model"))
                /\ Did(p, <<"register_model">>)
           ELSE /\ RaiseInRun(p, "register_model")
                /\ UNCHANGED registry
    /\ UNCHANGED <<args, ret, callOf, overlap, autologOn, experiment, runs, file, clock,
                   ticks, calls>>

\* MlflowClient().update_model_version(name=model_name, version=..., description=...)
update_model_version(p) ==
    /\ pc[p] = "update_model_version"
    /\ \E ok \in BOOLEAN :
        /\ Outcome(ok)
        /\ IF ok
           THEN /\ registry' = UpdateModelVersion(registry, locals[p].model_name,
                                   locals[p].version, Description(locals[p].current_date),
                                   callOf[p])
                /\ Goto(p, NextPc("update_model_version"))
                /\ Did(p, <<"update_model_version">>)
                /\ UNCHANGED locals
           ELSE /\ RaiseInRun(p, "update_model_version")
                /\ UNCHANGED registry
    /\ UNCHANGED <<args, ret, callOf, overlap, autologOn, experiment, runs, file, clock,
                   ticks, calls>>

\* The with block is left: __exit__ calls mlflow.end_run.  When that call
\* succeeds the run is ended and the function returns to random_forest, which
\* returns predictions and prob, or the exception of the block goes on to the
\* caller of random_forest.  When end_run itself raises, that exception goes
\* to the caller.
exit_run(p) ==
    /\ pc[p] \in {"exit", "exit_raise"}
    /\ \E ok \in BOOLEAN :
        /\ Outcome(ok)
        /\ runs' = EndRun(runs, locals[p].run,
                          IF pc[p] = "exit" THEN "FINISHED" ELSE "FAILED", ok)
        /\ IF ~ok
           THEN Raise(p, "end_run", <<"raise">>)
           ELSE IF pc[p] = "exit"
                THEN Return(p, locals[p].predictions, locals[p].prob,
                            trace[p] \o <<"end_run">>)
                ELSE Raise(p, locals[p].stage, <<"end_run">>)
    /\ UNCHANGED <<callOf, overlap, autologOn, experiment, registry, file, clock, ticks,
                   calls>>

\* The scheduler: process p takes the next step.  Taking over from a process
\* that is in the middle of a call is a preemption.
Sched(p) ==
    LET preempts == last # 0 /\ last # p
    IN  /\ preempts => switches < MaxSwitches
        /\ switches' = IF preempts THEN switches + 1 ELSE switches
        /\ last' = IF pc'[p] = "idle" THEN 0 ELSE p

\* no call of p ends with an exception in this step
Succeeds(p) == failures' = failures /\ ret'[p].status # "raised"

Solo == {1}

Next ==
    \/ \E p \in Solo : Fit(p) /\ Sched(p)
    \/ \E p \in Solo : Predict(p) /\ Sched(p)
    \/ \E p \in Solo : set_experiment(p) /\ Sched(p)
    \/ \E p \in Solo : autolog(p) /\ Sched(p)
    \/ \E p \in Solo : start_run(p) /\ Sched(p)
    \/ \E p \in Solo : log_param(p) /\ Sched(p)
    \/ \E p \in Solo : to_csv(p) /\ Sched(p)
    \/ \E p \in Solo : to_csv_write(p) /\ Sched(p)
    \/ \E p \in Solo : to_csv_close(p) /\ Sched(p)
    \/ \E p \in Solo : log_artifact(p) /\ Sched(p)
    \/ \E p \in Solo : log_model(p) /\ Sched(p)
    \/ \E p \in Solo : register_model(p) /\ Sched(p)
    \/ \E p \in Solo : update_model_version(p) /\ Sched(p)
    \/ \E p \in Solo : exit_run(p) /\ Sched(p)

NextClock ==
    \/ \E p \in Solo : Fit(p) /\ Sched(p) /\ Succeeds(p)
    \/ \E p \in Solo : Predict(p) /\ Sched(p) /\ Succeeds(p)
    \/ \E p \in Solo : set_experiment(p) /\ Sched(p) /\ Succeeds(p)
    \/ \E p \in Solo : autolog(p) /\ Sched(p) /\ Succeeds(p)
    \/ \E p \in Solo : start_run(p) /\ Sched(p) /\ Succeeds(p)
    \/ \E p \in Solo : log_param(p) /\ Sched(p) /\ Succeeds(p)
    \/ \E p \in Solo : to_csv(p) /\ Sched(p) /\ Succeeds(p)
    \/ \E p \in Solo : to_csv_write(p) /\ Sched(p) /\ Succeeds(p)
    \/ \E p \in Solo : log_artifact(p) /\ Sched(p) /\ Succeeds(p)
    \/ \E p \in Solo : log_model(p) /\ Sched(p) /\ Succeeds(p)
    \/ \E p \in Solo : register_model(p) /\ Sched(p) /\ Succeeds(p)
    \/ \E p \in Solo : update_model_version(p) /\ Sched(p) /\ Succeeds(p)
    \/ \E p \in Solo : exit_run(p) /\ Sched(p) /\ Succeeds(p)
    \/ Tick

\* the interpreters are interchangeable: number them by their first call
InOrder(p) == \A q \in ProcSet : q < p => callOf[q] # 0

NextConc ==
    \/ \E p \in ProcSet : Fit(p) /\ Sched(p) /\ Succeeds(p) /\ InOrder(p)
    \/ \E p \in ProcSet : Predict(p) /\ Sched(p) /\ Succeeds(p)
    \/ \E p \in ProcSet : set_experiment(p) /\ Sched(p) /\ Succeeds(p)
    \/ \E p \in ProcSet : autolog(p) /\ Sched(p) /\ Succeeds(p)
    \/ \E p \in ProcSet : start_run(p) /\ Sched(p) /\ Succeeds(p)
    \/ \E p \in ProcSet : log_param(p) /\ Sched(p) /\ Succeeds(p)
    \/ \E p \in ProcSet : to_csv(p) /\ Sched(p) /\ Succeeds(p)
    \/ \E p \in ProcSet : to_csv_write(p) /\ Sched(p) /\ Succeeds(p)
    \/ \E p \in ProcSet : log_artifact(p) /\ Sched(p) /\ Succeeds(p)
    \/ \E p \in ProcSet : log_model(p) /\ Sched(p) /\ Succeeds(p)
    \/ \E p \in ProcSet : register_model(p) /\ Sched(p) /\ Succeeds(p)
    \/ \E p \in ProcSet : update_model_version(p) /\ Sched(p) /\ Succeeds(p)
    \/ \E p \in ProcSet : exit_run(p) /\ Sched(p) /\ Succeeds(p)

Spec == Init /\ [][Next]_vars

SpecClock == Init /\ [][NextClock]_vars

SpecConc == Init /\ [][NextConc]_vars

(***************************************************************************)
(* Properties.                                                             *)
(***************************************************************************)
RunsOf(c) == {i \in DOMAIN runs : runs[i].call = c}
VersionsBy(c) == {i \in DOMAIN registry : registry[i].call = c}
Count(seq, x) == Cardinality({i \in DOMAIN seq : seq[i] = x})
IsPrefix(a, b) == Len(a) <= Len(b) /\ SubSeq(b, 1, Len(a)) = a
Ended(p) == ret[p].status # "none"
RecorderRuns == {i \in DOMAIN runs : runs[i].kind = "recorder"}

EffectNames == {"set_experiment", "autolog", "start_run", "log_param", "to_csv",
                "log_artifact", "log_model", "register_model", "update_model_version"}
IsEffect(x) == x \in EffectNames
Effects(tr) == SelectSeq(tr, IsEffect)

ExpectedEffects ==
    <<"set_experiment", "autolog", "start_run">> \o [i \in 1..NumParams |-> "log_param"]
        \o <<"to_csv", "log_artifact", "log_model", "register_model", "update_model_version">>

DigitValue(c) == CHOOSE d \in 0..9 : Digit(d) = c

RECURSIVE ParseInt(_)
ParseInt(digits) ==
    IF digits = <<>> THEN 0
    ELSE 10 * ParseInt(SubSeq(digits, 1, Len(digits) - 1)) + DigitValue(digits[Len(digits)])

\* C1: every call of random_forest with mlflow=True that returns opened and
\* closed exactly one run, made one log_param call per hyperparameter, logged
\* one sample artifact and one model artifact and registered one version,
\* also when it follows earlier tracked calls of the same process.
C1_ExactlyOneOfEach ==
    \A p \in ProcSet :
        (ret[p].status = "returned" /\ ret[p].mlflow) =>
            /\ Cardinality(RunsOf(ret[p].call)) = 1
            /\ \A i \in RunsOf(ret[p].call) :
                  /\ runs[i].status = "FINISHED"
                  /\ runs[i].sample # NoFile
                  /\ Cardinality(runs[i].models) = 1
            /\ Count(ret[p].trace, "start_run") = 1
            /\ Count(ret[p].trace, "end_run") = 1
            /\ Count(ret[p].trace, "log_param") = NumParams
            /\ Count(ret[p].trace, "log_artifact") = 1
            /\ Count(ret[p].trace, "log_model") = 1
            /\ Cardinality(VersionsBy(ret[p].call)) = 1

\* C2: the effects of the recorder happen in program order, each after the
\* previous one succeeded; nothing follows a failure but the one end_run call;
\* a registered version points at a model artifact its run already holds,
\* and a description sits on a version that exists.
C2_EffectOrder ==
    /\ \A p \in ProcSet :
          /\ IsPrefix(Effects(trace[p]), ExpectedEffects)
          /\ IsPrefix(Effects(ret[p].trace), ExpectedEffects)
          /\ \A k \in DOMAIN ret[p].trace :
                (ret[p].trace[k] = "raise" /\ k < Len(ret[p].trace)) =>
                    /\ k + 1 = Len(ret[p].trace)
                    /\ ret[p].trace[k + 1] \in {"end_run", "raise"}
    /\ \A v \in DOMAIN registry :
          \E i \in RunsOf(registry[v].call) :
              /\ registry[v].source = ModelUri(i, registry[v].name)
              /\ registry[v].name \in runs[i].models
              /\ runs[i].sample # NoFile
              /\ runs[i].params = NumParams

C2_Witness ==
    /\ ret[1].status = "returned"
    /\ Effects(ret[1].trace) = ExpectedEffects
    /\ registry # <<>>

\* C3: on every exit path of the recorder, the return and the failure of any
\* step of the with block, end_run is called once for the run the invocation
\* opened and no run of the invocation remains active: a run is active only
\* while its invocation is inside the with block.  Unless the end_run
\* request itself failed, the server has the run as FINISHED after a return
\* and as FAILED after a failure.
C3_RunClosedOnExit ==
    /\ \A i \in DOMAIN runs :
          /\ runs[i].endCalls <= 1
          /\ runs[i].active =>
                /\ runs[i].endCalls = 0
                /\ pc[runs[i].proc] \in InRun
                /\ callOf[runs[i].proc] = runs[i].call
                /\ locals[runs[i].proc].run = i
          /\ runs[i].status = "RUNNING" => runs[i].active \/ runs[i].endFailed
    /\ \A p \in ProcSet :
          Ended(p) =>
              \A i \in RunsOf(ret[p].call) :
                  /\ ~runs[i].active
                  /\ runs[i].endCalls = 1
                  /\ runs[i].kind = "recorder" /\ ~runs[i].endFailed =>
                        runs[i].status =
                            IF ret[p].status = "returned" THEN "FINISHED" ELSE "FAILED"

C3_Witness ==
    /\ ret[1].status = "raised"
    /\ ret[1].stage \in {"log_param", "to_csv", "log_artifact", "log_model",
                         "register_model", "update_model_version"}
    /\ \E i \in RunsOf(ret[1].call) :
          /\ runs[i].kind = "recorder"
          /\ ~runs[i].active
          /\ runs[i].endCalls = 1
          /\ runs[i].status = "FAILED"

\* C4: a call returns both predictions and probabilities or raises and
\* returns neither; a failure of a recorder step makes the call raise, and
\* no step is attempted again.
C4_NoPartialResult ==
    \A p \in ProcSet :
        /\ ret[p].status = "returned" => ret[p].predictions /\ ret[p].prob
        /\ ret[p].status = "raised" => ~ret[p].predictions /\ ~ret[p].prob
        /\ Count(ret[p].trace, "raise") > 0 => ret[p].status = "raised"
        /\ Count(trace[p], "raise") > 0 => pc[p] = "exit_raise"
        /\ \A e \in EffectNames \ {"log_param"} :
              Count(ret[p].trace, e) <= 1 /\ Count(trace[p], e) <= 1
        /\ Count(ret[p].trace, "log_param") <= NumParams
        /\ Count(trace[p], "log_param") <= NumParams

C4_Witness ==
    /\ ret[1].status = "raised"
    /\ ret[1].mlflow
    /\ ret[1].stage \in EffectNames
    /\ Count(ret[1].trace, "predict_proba") = 1

\* C5: when fit fails because features and labels differ in row count, the
\* call raises, returns no predictions and has no tracking effect: no run,
\* no file, no registered model.
C5_FitErrorNoEffect ==
    \A p \in ProcSet :
        (ret[p].status = "raised" /\ ret[p].stage = "fit") =>
            /\ ~ret[p].predictions /\ ~ret[p].prob
            /\ RunsOf(ret[p].call) = {}
            /\ Effects(ret[p].trace) = <<>>
            /\ VersionsBy(ret[p].call) = {}

\* C6: the run the recorder opens is named Train_size_<N>, N the number of
\* rows of the train_features the classifier was fitted on; 250 rows give
\* Train_size_250.
C6_RunName ==
    \A i \in RecorderRuns :
        /\ Head(runs[i].name) = "Train_size_"
        /\ ParseInt(Tail(runs[i].name)) = runs[i].features.rows
        /\ runs[i].features.rows = 250 => runs[i].name = <<"Train_size_", "2", "5", "0">>

C6_Witness ==
    \E i \in RecorderRuns :
        runs[i].features.rows = 250 /\ runs[i].name = <<"Train_size_", "2", "5", "0">>

\* C7: one model_name Random_Forest_Experiment_<DD-MM-YYYY> serves an
\* invocation throughout: artifact path of the logged model, last segment of
\* runs:/<run_id>/<model_name> with the id of the invocation's own run,
\* registered name and name of the description update; the description
\* carries the date of the name even if midnight passes meanwhile, and the
\* version described is the one this invocation registered.
C7_OneModelName ==
    \A v \in DOMAIN registry :
        LET ver == registry[v] IN
        /\ Head(ver.name) = "Random_Forest_Experiment_"
        /\ Len(ver.name) = 11 /\ ver.name[4] = "-" /\ ver.name[7] = "-"
        /\ \E i \in RunsOf(ver.call) \cap RecorderRuns :
              /\ ver.source = <<"runs:/">> \o FormatInt(i) \o <<"/">> \o ver.name
              /\ runs[i].models = {ver.name}
        /\ ver.describedBy \in {0, ver.call}
        /\ ver.description # <<>> =>
              /\ ver.describedBy = ver.call
              /\ Head(ver.description) = "Random Forest model registered on "
              /\ Tail(ver.description) = Tail(ver.name)

C7_Witness ==
    /\ pc[1] = "exit"
    /\ \E v \in VersionsBy(callOf[1]) :
          /\ registry[v].description # <<>>
          /\ Tail(registry[v].name) # Strftime(clock)

\* C8: invocations on one date register under one name, each creating a new
\* version: the versions of a name are numbered 1..k, point at k different
\* runs and were each described by the invocation that created them; after
\* k successful invocations on a date the name holds k versions.
C8_NewVersionPerInvocation ==
    /\ \A v, w \in DOMAIN registry :
          (v # w /\ registry[v].name = registry[w].name) =>
              /\ registry[v].version # registry[w].version
              /\ registry[v].source # registry[w].source
              /\ registry[v].call # registry[w].call
    /\ \A v \in DOMAIN registry :
          /\ registry[v].version \in 1..Cardinality(VersionsOf(registry, registry[v].name))
          /\ registry[v].describedBy \in {0, registry[v].call}
    /\ (\A p \in ProcSet : pc[p] = "idle") =>
          \A i \in RecorderRuns : \A n \in runs[i].models :
              Cardinality(VersionsOf(registry, n)) =
                  Cardinality({j \in RecorderRuns :
                                  runs[j].status = "FINISHED" /\ n \in runs[j].models})

C8_Witness ==
    /\ \A p \in ProcSet : pc[p] = "idle"
    /\ \E v, w \in DOMAIN registry :
          /\ registry[v].name = registry[w].name
          /\ registry[v].version = 1 /\ registry[w].version = 2
          /\ registry[v].describedBy = registry[v].call
          /\ registry[w].describedBy = registry[w].call
          /\ registry[v].call # registry[w].call

\* the bytes of the header line 0,1,..,cols-1 and of `rows` lines of `cols`
\* cells of `chars` characters, each cell followed by a comma or the newline
RECURSIVE HeaderLineBytes(_)
HeaderLineBytes(cols) ==
    IF cols = 0 THEN 0
    ELSE HeaderLineBytes(cols - 1) + (IF cols - 1 < 10 THEN 2 ELSE 3)

\* the file an invocation's own to_csv leaves when nothing interferes: its
\* train_features, whole, under a header line and without an index column
OwnSample(r) ==
    [exists |-> TRUE,
     segs |-> <<[who |-> r.call,
                 n |-> HeaderLineBytes(r.features.cols)
                       + r.features.rows * r.features.cols * (r.features.chars + 1)]>>]

\* C9: two invocations running at the same time race on train_sample.csv:
\* the sample attached to a run may be the other invocation's features (or
\* any mix the unlocked opens and writes of the two leave in the file); an
\* invocation no other invocation overlaps attaches exactly its own
\* features.
C9_SampleIsOwnUnlessRaced ==
    \A i \in RecorderRuns :
        runs[i].sample # NoFile =>
            /\ runs[i].sample.exists
            /\ ~runs[i].overlapped => runs[i].sample = OwnSample(runs[i])
            /\ runs[i].sample # OwnSample(runs[i]) =>
                  /\ runs[i].overlapped
                  /\ \A k \in DOMAIN runs[i].sample.segs :
                        \/ runs[i].sample.segs[k].who \in {0, runs[i].call}
                        \/ \E j \in RecorderRuns \ {i} :
                              /\ runs[j].proc # runs[i].proc
                              /\ runs[j].call = runs[i].sample.segs[k].who

C9_Witness ==
    \E i \in RecorderRuns :
        /\ runs[i].overlapped
        /\ \E j \in RecorderRuns \ {i} :
              /\ runs[j].proc # runs[i].proc
              /\ runs[j].features # runs[i].features
              /\ runs[i].sample = OwnSample(runs[j])

\* C10: a call with mlflow=False has no tracking effect, whatever earlier
\* calls did; the recorder runs if and only if the flag is set, and only
\* after fit, predict and predict_proba succeeded.
C10_NoFlagNoTracking ==
    \A p \in ProcSet :
        /\ (Ended(p) /\ ~ret[p].mlflow) =>
              /\ RunsOf(ret[p].call) = {}
              /\ Effects(ret[p].trace) = <<>>
              /\ VersionsBy(ret[p].call) = {}
        /\ Effects(ret[p].trace) # <<>> =>
              /\ ret[p].mlflow
              /\ IsPrefix(<<"fit", "predict", "predict_proba">>, ret[p].trace)
        /\ (ret[p].status = "returned" /\ ret[p].mlflow) => Effects(ret[p].trace) # <<>>

====
